---- MODULE Spec2Model ----
(***************************************************************************)
(* Model of the cryptocurrency dashboard's data layer:                     *)
(*   src/project_functions.py  field parsers, row filter, aggregations     *)
(*   src/Cripto_main.py        the pipeline and the widget handlers        *)
(*                                                                         *)
(* Strings are sequences of one-character strings.  A float is held as an  *)
(* exact decimal m * 10^e (normalised: m carries no trailing zero), NaN as *)
(* a separate value; binary rounding of floats is not modelled.  A         *)
(* timestamp is year, month, day and the minute of the day.                *)
(***************************************************************************)
EXTENDS Integers, Sequences, FiniteSets, TLC

VARIABLES
    sr,     \* the column handed to a field parser (SpecParse)
    res,    \* what the parser returned: values, or the exception it raised
    df,     \* the dashboard's df_crypto: a sequence of rows, each with its label
    pc,     \* "loaded", "parsed", "ready", "crashed" / parser states
    out     \* the outcome of the last call made on df

vars == <<sr, res, df, pc, out>>

(***************************************************************************)
(* Bounds of the model.                                                    *)
(***************************************************************************)
MaxDigits == 1      \* integer digits of a generated numeric string
MaxRows == 3        \* rows of a generated dataset

(***************************************************************************)
(* Characters and strings.                                                 *)
(***************************************************************************)
Digits == {"0", "1", "2", "3", "4", "5", "6", "7", "8", "9"}

DigitVal(c) ==
    CASE c = "0" -> 0 [] c = "1" -> 1 [] c = "2" -> 2 [] c = "3" -> 3
      [] c = "4" -> 4 [] c = "5" -> 5 [] c = "6" -> 6 [] c = "7" -> 7
      [] c = "8" -> 8 [] c = "9" -> 9

RECURSIVE DigitsToInt(_)
DigitsToInt(ds) ==
    IF ds = <<>> THEN 0
    ELSE 10 * DigitsToInt(SubSeq(ds, 1, Len(ds) - 1)) + DigitVal(ds[Len(ds)])

AllDigits(s) == \A i \in 1..Len(s) : s[i] \in Digits

\* str.replace(ch, '', regex=False): every occurrence of ch is removed
StrReplace(s, ch) == SelectSeq(s, LAMBDA c : c # ch)

\* str[-1]: the last character; pandas gives NaN for the empty string
NoChar == "<none>"
StrLast(s) == IF s = <<>> THEN NoChar ELSE s[Len(s)]

\* str[:-1]
StrInit(s) == IF s = <<>> THEN <<>> ELSE SubSeq(s, 1, Len(s) - 1)

\* a missing cell (float NaN in an object column); astype(str) renders it "nan"
NA == <<"<NA>">>
NanStr == <<"n", "a", "n">>
AsTypeStr(cell) == IF cell = NA THEN NanStr ELSE cell

(***************************************************************************)
(* Numbers.                                                                *)
(***************************************************************************)
NaN == [k |-> "nan", m |-> 0, e |-> 0]

RECURSIVE Norm(_, _)
Norm(m, e) ==
    IF m = 0 THEN [k |-> "num", m |-> 0, e |-> 0]
    ELSE IF m % 10 = 0 THEN Norm(m \div 10, e + 1)
    ELSE [k |-> "num", m |-> m, e |-> e]

IsNaN(x) == x.k = "nan"

\* x * 10^k (NaN stays NaN)
Scale(x, k) == IF IsNaN(x) THEN NaN ELSE Norm(x.m, x.e + k)

Abs(i) == IF i < 0 THEN -i ELSE i

RECURSIVE NDigits(_)
NDigits(i) == IF i < 10 THEN 1 ELSE 1 + NDigits(i \div 10)

RECURSIVE Pow10(_)
Pow10(k) == IF k = 0 THEN 1 ELSE 10 * Pow10(k - 1)

\* a < b for two positive normalised decimals
PosLess(a, b) ==
    LET ha == NDigits(a.m) + a.e
        hb == NDigits(b.m) + b.e
    IN  IF ha # hb THEN ha < hb
        ELSE IF a.e >= b.e THEN a.m * Pow10(a.e - b.e) < b.m
        ELSE a.m < b.m * Pow10(b.e - a.e)

Neg(x) == [x EXCEPT !.m = -x.m]

\* a < b on non-NaN floats
NumLess(a, b) ==
    IF a.m < 0 /\ b.m < 0 THEN PosLess(Neg(b), Neg(a))
    ELSE IF a.m <= 0 \/ b.m <= 0 THEN a.m < b.m
    ELSE PosLess(a, b)

NumLeq(a, b) == a = b \/ NumLess(a, b)

(***************************************************************************)
(* pd.to_numeric(..., errors='coerce') on one string: an optional sign,    *)
(* digits with at most one decimal point and at least one digit.  The      *)
(* empty string, "nan" in any case and everything else is NaN.             *)
(***************************************************************************)
Lower(c) == CASE c = "N" -> "n" [] c = "A" -> "a" [] OTHER -> c

IsNanToken(s) == Len(s) = 3 /\ [i \in 1..3 |-> Lower(s[i])] = NanStr

PointAt(s) == {i \in 1..Len(s) : s[i] = "."}

UnsignedDecimal(s) ==
    LET ps == PointAt(s)
    IN  IF ps = {} THEN
            IF s # <<>> /\ AllDigits(s) THEN Norm(DigitsToInt(s), 0) ELSE NaN
        ELSE IF Cardinality(ps) > 1 THEN NaN
        ELSE LET p == CHOOSE i \in ps : TRUE
                 ip == SubSeq(s, 1, p - 1)
                 fp == SubSeq(s, p + 1, Len(s))
             IN  IF AllDigits(ip) /\ AllDigits(fp) /\ Len(ip) + Len(fp) > 0
                 THEN Norm(DigitsToInt(ip \o fp), -Len(fp))
                 ELSE NaN

ParseFloat(s) ==
    IF s = <<>> \/ IsNanToken(s) THEN NaN
    ELSE IF s[1] = "-" THEN
        LET u == UnsignedDecimal(Tail(s)) IN IF IsNaN(u) THEN NaN ELSE Neg(u)
    ELSE IF s[1] = "+" THEN UnsignedDecimal(Tail(s))
    ELSE UnsignedDecimal(s)

\* faulty variant: the unparsable value is filled with zero
to_numeric_fill_zero(s) == IF IsNaN(ParseFloat(s)) THEN Norm(0, 0) ELSE ParseFloat(s)

to_numeric(s) == ParseFloat(s)

Ok(vals) == [kind |-> "ok", vals |-> vals]
Raise(exc) == [kind |-> "raise", vals |-> <<exc>>]

(***************************************************************************)
(* Field parsers (project_functions.py 10-61), one value at a time and     *)
(* then over a column.                                                     *)
(***************************************************************************)
string_to_num(cell) == to_numeric(StrReplace(AsTypeStr(cell), ","))

transform_string_to_num(col) ==
    Ok([i \in 1..Len(col) |-> string_to_num(col[i])])

SuffixSet == {"T", "B", "M", "K"}

\* faulty variant: B scales like M
FactorExp_BillionAsMillion(c) ==
    CASE c = "T" -> 12 [] c = "B" -> 6 [] c = "M" -> 6 [] c = "K" -> 3
      [] OTHER -> 0

\* the exponent of the factor: the map of line 40, fillna(1) of line 44
FactorExp(c) ==
    CASE c = "T" -> 12 [] c = "B" -> 9 [] c = "M" -> 6 [] c = "K" -> 3
      [] OTHER -> 0

dollars_str_to_num(cell) ==
    LET num == StrReplace(AsTypeStr(cell), "$")
        factor == FactorExp(StrLast(num))
        pure_num == IF StrLast(num) \in SuffixSet THEN StrInit(num) ELSE num
    IN  Scale(to_numeric(StrReplace(pure_num, ",")), factor)

transform_dollars_str_to_num(col) ==
    Ok([i \in 1..Len(col) |-> dollars_str_to_num(col[i])])

percent_str_to_num(cell) ==
    to_numeric(StrReplace(StrReplace(AsTypeStr(cell), "%"), "+"))

transform_percent_str_to_num(col) ==
    Ok([i \in 1..Len(col) |-> percent_str_to_num(col[i])])


(***************************************************************************)
(* pd.to_datetime(sr.astype(str)) with the default errors='raise'          *)
(* (line 14).  The strings "", "nan", "NaT" (pandas' nat_strings) become   *)
(* NaT; a string "YYYY-MM-DD HH:MM" becomes its timestamp; any other       *)
(* string makes the call raise for the whole column.                       *)
(***************************************************************************)
NaT == [k |-> "nat", y |-> 0, mo |-> 0, d |-> 0, t |-> 0]

Stamp(y, mo, d, t) == [k |-> "ts", y |-> y, mo |-> mo, d |-> d, t |-> t]

IsNaT(x) == x.k = "nat"

NatStrings ==
    { <<>>, <<"n", "a", "n">>, <<"N", "a", "N">>, <<"N", "A", "N">>,
      <<"N", "a", "T">>, <<"n", "a", "t">>, <<"N", "A", "T">> }

DaysIn(y, mo) ==
    IF mo \in {4, 6, 9, 11} THEN 30
    ELSE IF mo = 2 THEN (IF y % 4 = 0 /\ (y % 100 # 0 \/ y % 400 = 0) THEN 29 ELSE 28)
    ELSE 31

IsIsoStamp(s) ==
    /\ Len(s) = 16
    /\ s[5] = "-" /\ s[8] = "-" /\ s[11] = " " /\ s[14] = ":"
    /\ \A i \in {1, 2, 3, 4, 6, 7, 9, 10, 12, 13, 15, 16} : s[i] \in Digits
    /\ LET y == DigitsToInt(SubSeq(s, 1, 4))
           mo == DigitsToInt(SubSeq(s, 6, 7))
           d == DigitsToInt(SubSeq(s, 9, 10))
       IN  /\ y >= 1 /\ mo \in 1..12 /\ d \in 1..DaysIn(y, mo)
           /\ DigitsToInt(SubSeq(s, 12, 13)) <= 23
           /\ DigitsToInt(SubSeq(s, 15, 16)) <= 59

IsoStamp(s) ==
    Stamp(DigitsToInt(SubSeq(s, 1, 4)), DigitsToInt(SubSeq(s, 6, 7)),
          DigitsToInt(SubSeq(s, 9, 10)),
          60 * DigitsToInt(SubSeq(s, 12, 13)) + DigitsToInt(SubSeq(s, 15, 16)))

DateParsable(s) == s \in NatStrings \/ IsIsoStamp(s)

to_datetime(s) == IF s \in NatStrings THEN NaT ELSE IsoStamp(s)

transform_string_to_datetime(col) ==
    LET strs == [i \in 1..Len(col) |-> AsTypeStr(col[i])]
    IN  IF \E i \in 1..Len(col) : ~DateParsable(strs[i])
        THEN Raise("ValueError")
        ELSE Ok([i \in 1..Len(col) |-> to_datetime(strs[i])])

(***************************************************************************)
(* SpecParse: a parser applied to a column drawn from a bounded pool of    *)
(* cells.                                                                  *)
(***************************************************************************)
PoolDigits == {"0", "1", "7"}

DigitStrs(n) == UNION {[1..k -> PoolDigits] : k \in 0..n}

Opt(chars) == {<<>>} \cup {<<c>> : c \in chars}

\* "EUR" stands for the euro sign, one character that is not "$"
NumStrs ==
    { sym \o sign \o ip \o fp \o suf \o pct :
        sym \in Opt({"$", "EUR"}), sign \in Opt({"+", "-"}),
        ip \in DigitStrs(MaxDigits),
        fp \in {<<>>, <<".">>, <<".", "5">>, <<".", "5", "3">>},
        suf \in Opt({"K", "M", "B", "T", "X", "k"}), pct \in Opt({"%"}) }

S_abc == <<"a", "b", "c">>
S_dashes == <<"$", "-", "-", "B">>
S_1234_56 == <<"1", ",", "2", "3", "4", ".", "5", "6">>
S_171_53B == <<"$", "1", "7", "1", ".", "5", "3", "B">>
S_1_64K == <<"$", "1", ".", "6", "4", "K">>
S_neg_pct == <<"-", "1", ".", "6", "6", "%">>
S_one == <<"1">>

Stamp_d1_early == <<"2","0","2","4","-","0","1","-","0","1"," ","0","0",":","0","0">>
Stamp_d1_late == <<"2","0","2","4","-","0","1","-","0","1"," ","2","3",":","5","9">>
Stamp_d2_early == <<"2","0","2","4","-","0","1","-","0","2"," ","0","0",":","0","0">>
Stamp_bad_day == <<"2","0","2","4","-","0","2","-","3","1"," ","0","0",":","0","0">>

Examples ==
    { NA, NanStr, <<"N", "a", "N">>, <<"N", "a", "T">>, S_abc, S_dashes,
      S_1234_56, S_171_53B, S_1_64K, S_neg_pct,
      Stamp_d1_early, Stamp_d1_late, Stamp_d2_early, Stamp_bad_day }

Cells == NumStrs \cup Examples

\* the second cell of a two-row column
Companions == {S_one, Stamp_d1_late, S_abc}

InputColumns ==
    {<<s>> : s \in Cells}
      \cup {<<s, c>> : s \in Cells, c \in Companions}
      \cup {<<c, s>> : s \in Cells, c \in Companions}

NoOut == [kind |-> "none"]

InitParse ==
    /\ sr \in InputColumns
    /\ res = [kind |-> "none", vals |-> <<>>]
    /\ df = <<>>
    /\ pc = "column"
    /\ out = NoOut

ParseStep(fn, result) ==
    /\ pc = "column"
    /\ res' = result
    /\ pc' = fn
    /\ UNCHANGED <<sr, df, out>>

StringToDatetime == ParseStep("transform_string_to_datetime", transform_string_to_datetime(sr))

StringToNum == ParseStep("transform_string_to_num", transform_string_to_num(sr))

DollarsStrToNum == ParseStep("transform_dollars_str_to_num", transform_dollars_str_to_num(sr))

PercentStrToNum == ParseStep("transform_percent_str_to_num", transform_percent_str_to_num(sr))

NextParse == StringToDatetime \/ StringToNum \/ DollarsStrToNum \/ PercentStrToNum

SpecParse == InitParse /\ [][NextParse]_vars


(***************************************************************************)
(* Properties of the field parsers (checked under SpecParse).             *)
(***************************************************************************)
\* digits, optionally followed by a point and digits
IsPlainDecimal(s) ==
    \E n \in 1..Len(s) :
        /\ AllDigits(SubSeq(s, 1, n))
        /\ \/ n = Len(s)
           \/ /\ n + 1 < Len(s)
              /\ s[n + 1] = "."
              /\ AllDigits(SubSeq(s, n + 2, Len(s)))

\* the value a plain decimal denotes
PlainDecimalValue(s) ==
    LET n == CHOOSE n \in 1..Len(s) :
                 AllDigits(SubSeq(s, 1, n)) /\ (n = Len(s) \/ s[n + 1] = ".")
        fracLen == IF n = Len(s) THEN 0 ELSE Len(s) - n - 1
    IN  Norm(DigitsToInt(SubSeq(s, 1, n)) * Pow10(fracLen)
               + DigitsToInt(SubSeq(s, n + 2, Len(s))), -fracLen)

\* <symbol><digits>[.<digits>][<suffix>] with the symbol among syms
IsCurrencyForm(s, syms) ==
    /\ Len(s) >= 2
    /\ s[1] \in syms
    /\ LET body == Tail(s)
       IN  IsPlainDecimal(IF StrLast(body) \in {"K", "M", "B", "T"}
                          THEN StrInit(body) ELSE body)

\* the numeric part times 10^3, 10^6, 10^9, 10^12, or times 1 with no suffix
CurrencyFormValue(s) ==
    LET body == Tail(s)
        last == StrLast(body)
        power == CASE last = "K" -> 3 [] last = "M" -> 6 [] last = "B" -> 9
                   [] last = "T" -> 12 [] OTHER -> 0
        numeric == IF power = 0 THEN body ELSE StrInit(body)
    IN  Scale(PlainDecimalValue(numeric), power)

DollarsScaled(syms) ==
    pc = "transform_dollars_str_to_num" =>
        /\ res.kind = "ok"
        /\ \A i \in 1..Len(sr) :
               IsCurrencyForm(sr[i], syms) => res.vals[i] = CurrencyFormValue(sr[i])

\* C1 as stated: every currency string <symbol><digits>[.<digits>]<suffix>,
\* whatever the currency symbol, is returned as its numeric part times the
\* suffix's power of ten (times 1 with no suffix).
C1_AnyCurrencySymbol == DollarsScaled({"$", "EUR"})

\* C1 as amended: every string $<digits>[.<digits>]<suffix> with the dollar
\* sign as its symbol is returned as its numeric part times 10^3, 10^6, 10^9,
\* 10^12 for K, M, B, T, and times 1 with no suffix.
C1_DollarScaled == DollarsScaled({"$"})

C1_Witness ==
    /\ pc = "transform_dollars_str_to_num"
    /\ sr = <<S_171_53B, S_one>>
    /\ res.vals[1] = [k |-> "num", m |-> 17153, e |-> 7]

NumericParsers ==
    {"transform_string_to_num", "transform_dollars_str_to_num",
     "transform_percent_str_to_num"}

Letters == {"K", "M", "B", "T", "X", "k", "a", "b", "c", "n", "N"}

\* the strings C2 calls unparsable
Unparsable(s) ==
    \/ s = <<>>
    \/ s \in {NA, NanStr, <<"N", "a", "N">>}
    \/ s \in {S_abc, S_dashes}
    \/ \A i \in 1..Len(s) : s[i] \notin Digits
    \/ /\ Len(s) >= 3
       /\ s[1] = "$"
       /\ StrLast(s) \in Letters \ {"K", "M", "B", "T"}
       /\ IsPlainDecimal(SubSeq(s, 2, Len(s) - 1))

\* C2: each numeric parser returns a column (never raises) in which every
\* unparsable row is the missing sentinel, not zero or another number, and
\* the other rows are still parsed (a row "1" is 1 whatever its neighbours).
C2_UnparsableIsMissing ==
    pc \in NumericParsers =>
        /\ res.kind = "ok"
        /\ Len(res.vals) = Len(sr)
        /\ \A i \in 1..Len(sr) :
               /\ Unparsable(sr[i]) => res.vals[i] = NaN
               /\ sr[i] = S_one => res.vals[i] = [k |-> "num", m |-> 1, e |-> 0]

C2_Witness ==
    /\ pc = "transform_dollars_str_to_num"
    /\ sr = <<S_dashes, S_one>>
    /\ res = Ok(<<NaN, [k |-> "num", m |-> 1, e |-> 0]>>)

\* C3: transform_string_to_datetime is total: it returns a column in which
\* each unparsable row is missing and every other row is converted.
C3_DatetimeTotal ==
    pc = "transform_string_to_datetime" =>
        /\ res.kind = "ok"
        /\ Len(res.vals) = Len(sr)
        /\ \A i \in 1..Len(sr) :
               IF IsIsoStamp(sr[i]) THEN res.vals[i] = IsoStamp(sr[i])
               ELSE res.vals[i] = NaT


(***************************************************************************)
(* The dataset: df_crypto as read from cryptocurrency.csv (Cripto_main.py  *)
(* line 10).  A row carries its label (the RangeIndex of read_csv), the    *)
(* name and symbol, and the raw string cells.                              *)
(***************************************************************************)
NaName == "<NA>"        \* a missing name (NaN in the name column)

Names == {"Bitcoin", "Ethereum", "Tether"}

Symbol(n) ==
    CASE n = "Bitcoin" -> "BTC" [] n = "Ethereum" -> "ETH" [] n = "Tether" -> "USDT"
      [] OTHER -> "?"

RawColumns ==
    {"name", "symbol", "timestamp", "price_usd", "vol_24h", "market_cap",
     "total_vol", "chg_24h", "chg_7d"}

DerivedColumns ==
    {"price_usd_num", "vol_24h_num", "market_cap_num", "total_vol_num",
     "chg_24h_num", "chg_7d_num"}

\* the digit that ranks the market cap opposite to the price
Mirror(v) == CASE v = "1" -> "3" [] v = "3" -> "1" [] OTHER -> v

\* a raw row whose numeric cells are written from the digit v, the cells of
\* the columns in bad being unparsable
MkRow(n, ts, v, bad) ==
    [ label |-> 0,
      name |-> IF "name" \in bad THEN NaName ELSE n,
      symbol |-> Symbol(n),
      timestamp |-> ts,
      price_usd |-> IF "price_usd_num" \in bad THEN S_abc
                    ELSE <<v, ",", "5", "0", "0">>,
      vol_24h |-> IF "vol_24h_num" \in bad THEN <<"$", "1", "X">>
                  ELSE <<"$", v, ".", "5", "M">>,
      market_cap |-> IF "market_cap_num" \in bad THEN S_dashes
                     ELSE <<"$", Mirror(v), "B">>,
      total_vol |-> IF "total_vol_num" \in bad THEN <<>>
                    ELSE <<"0", ".", v, "%">>,
      chg_24h |-> IF "chg_24h_num" \in bad THEN NA
                  ELSE IF v = "2" THEN <<"-", v, ".", "5", "%">>
                  ELSE <<"+", v, "%">>,
      chg_7d |-> IF "chg_7d_num" \in bad THEN <<"%">>
                 ELSE <<"-", Mirror(v), "%">> ]

\* line 23
na_list ==
    <<"name", "price_usd_num", "vol_24h_num", "market_cap_num",
      "total_vol_num", "chg_24h_num", "chg_7d_num">>

RequiredColumns == {na_list[i] : i \in 1..Len(na_list)}

\* rows that differ in entity and time
TimeRows ==
    {MkRow(n, ts, "1", {}) :
        n \in {"Bitcoin", "Ethereum"},
        ts \in {Stamp_d1_early, Stamp_d1_late, Stamp_d2_early}}
      \cup {MkRow("Bitcoin", NA, "1", {}), MkRow("Bitcoin", S_abc, "1", {})}

\* rows that differ in entity and value
ValueRows ==
    {MkRow(n, Stamp_d1_early, v, {}) :
        n \in {"Bitcoin", "Ethereum"}, v \in {"1", "2", "3"}}
      \cup {MkRow("Tether", Stamp_d1_early, "2", {}),
            MkRow("Bitcoin", Stamp_d1_early, "3", DerivedColumns)}

\* rows that differ in the cells that are missing
FilterRows ==
    {MkRow("Bitcoin", Stamp_d1_early, "1", bad) :
        bad \in {{}} \cup {{c} : c \in RequiredColumns}
                  \cup {{"name", "chg_7d_num"}, RequiredColumns}}

\* read_csv labels the rows 0, 1, 2, ...
Labelled(rows) == [i \in 1..Len(rows) |-> [rows[i] EXCEPT !.label = i - 1]]

Datasets(pool) ==
    {Labelled(rows) : rows \in UNION {[1..n -> pool] : n \in 0..MaxRows}}

(***************************************************************************)
(* Cripto_main.py lines 13-22: the derived columns.  The timestamp column  *)
(* is overwritten; the numeric columns are added.                          *)
(***************************************************************************)
Column(d, col) == [i \in 1..Len(d) |-> d[i][col]]

DerivedRow(r, ts, price, vol, cap, tvol, c24, c7) ==
    [ label |-> r.label, name |-> r.name, symbol |-> r.symbol,
      timestamp |-> ts,
      price_usd |-> r.price_usd, vol_24h |-> r.vol_24h,
      market_cap |-> r.market_cap, total_vol |-> r.total_vol,
      chg_24h |-> r.chg_24h, chg_7d |-> r.chg_7d,
      price_usd_num |-> price, vol_24h_num |-> vol, market_cap_num |-> cap,
      total_vol_num |-> tvol, chg_24h_num |-> c24, chg_7d_num |-> c7 ]

\* the parsed dataset; the timestamp parser decides whether there is one
ParseColumns(d) ==
    LET ts == transform_string_to_datetime(Column(d, "timestamp"))
        price == transform_string_to_num(Column(d, "price_usd"))
        vol == transform_dollars_str_to_num(Column(d, "vol_24h"))
        cap == transform_dollars_str_to_num(Column(d, "market_cap"))
        tvol == transform_percent_str_to_num(Column(d, "total_vol"))
        c24 == transform_percent_str_to_num(Column(d, "chg_24h"))
        c7 == transform_percent_str_to_num(Column(d, "chg_7d"))
    IN  IF ts.kind = "raise" THEN ts
        ELSE Ok([i \in 1..Len(d) |->
                   DerivedRow(d[i], ts.vals[i], price.vals[i], vol.vals[i],
                              cap.vals[i], tvol.vals[i], c24.vals[i], c7.vals[i])])

Parse ==
    /\ pc = "loaded"
    /\ LET parsed == ParseColumns(df)
       IN  IF parsed.kind = "raise"
           THEN /\ pc' = "crashed"
                /\ out' = [kind |-> "raise", title |-> "to_datetime",
                           column |-> "timestamp", exc |-> parsed.vals[1]]
                /\ df' = df
           ELSE /\ pc' = "parsed"
                /\ out' = NoOut
                /\ df' = parsed.vals
    /\ UNCHANGED <<sr, res>>

(***************************************************************************)
(* drop_na_line (project_functions.py 64-70).                              *)
(***************************************************************************)
IsNa(r, col) ==
    CASE col = "name" -> r.name = NaName
      [] col = "timestamp" -> IsNaT(r.timestamp)
      [] OTHER -> IsNaN(r[col])

\* df.dropna(subset=[col])
dropna(d, col) == SelectSeq(d, LAMBDA r : ~IsNa(r, col))

\* faulty variant: only the last listed column is looked at
drop_na_line_last_only(d, columns) ==
    IF columns = <<>> THEN d ELSE dropna(d, columns[Len(columns)])

RECURSIVE drop_na_line(_, _)
drop_na_line(d, columns) ==
    IF columns = <<>> THEN d
    ELSE drop_na_line(dropna(d, Head(columns)), Tail(columns))

\* the column lists a caller passes: the dashboard's, one column, two columns
ColumnLists ==
    {na_list} \cup {<<c>> : c \in RequiredColumns}
      \cup {<<c1, c2>> : c1 \in RequiredColumns, c2 \in RequiredColumns}

\* df_crypto = pf.drop_na_line(df_crypto, *columns)
DropNaLine(columns, from, to) ==
    /\ pc = from
    /\ df' = drop_na_line(df, columns)
    /\ out' = [kind |-> "drop_na_line", columns |-> columns, input |-> df]
    /\ pc' = to
    /\ UNCHANGED <<sr, res>>

\* a caller filters the parsed dataset on a list of columns
FilterAny == \E columns \in ColumnLists : DropNaLine(columns, "parsed", "filtered")

\* and filters the result once more on the same list
FilterAgain == DropNaLine(out.columns, "filtered", "refiltered")

InitData(pool) ==
    /\ df \in Datasets(pool)
    /\ pc = "loaded"
    /\ out = NoOut
    /\ sr = <<>>
    /\ res = [kind |-> "none", vals |-> <<>>]

InitFilter == InitData(FilterRows)

NextFilter == Parse \/ FilterAny \/ FilterAgain

SpecFilter == InitFilter /\ [][NextFilter]_vars


(***************************************************************************)
(* Helpers of the aggregations: sorting, arithmetic on the column values.  *)
(***************************************************************************)
\* the permutations of 1..n, for every length a dataset can have
PermTable ==
    [n \in 0..MaxRows |->
        {f \in [1..n -> 1..n] : \A i, j \in 1..n : i # j => f[i] # f[j]}]

Perms(n) == PermTable[n]

\* the arrangements of s in which every pair of neighbours is in inOrder
Arrangements(s, inOrder) ==
    {[i \in 1..Len(s) |-> s[f[i]]] :
        f \in {g \in Perms(Len(s)) :
                 \A i \in 1..(Len(s) - 1) : <<s[g[i]], s[g[i + 1]]>> \in inOrder}}

SeqToSet(s) == {s[i] : i \in 1..Len(s)}

\* the elements of s at the positions in keep, in order
Nth(S, k) == CHOOSE i \in S : Cardinality({j \in S : j < i}) = k - 1
AtPositions(s, keep) == [k \in 1..Cardinality(keep) |-> s[Nth(keep, k)]]

Min2(a, b) == IF a < b THEN a ELSE b

NumAdd(a, b) ==
    LET e == Min2(a.e, b.e)
    IN  IF a.m = 0 THEN b
        ELSE IF b.m = 0 THEN a
        ELSE Norm(a.m * Pow10(a.e - e) + b.m * Pow10(b.e - e), e)

\* the non-missing values of a column (skipna)
Values(d, col) == Column(dropna(d, col), col)

RECURSIVE SumSeq(_)
SumSeq(vs) == IF vs = <<>> THEN Norm(0, 0) ELSE NumAdd(Head(vs), SumSeq(Tail(vs)))

SortedValues(vs) ==
    LET f == CHOOSE g \in Perms(Len(vs)) :
                 \A i \in 1..(Len(vs) - 1) : NumLeq(vs[g[i]], vs[g[i + 1]])
    IN  [i \in 1..Len(vs) |-> vs[f[i]]]

\* a quotient sum / n, kept exact
Quot(sum, n) == [sum |-> sum, n |-> n]

SeriesMean(vs) == IF vs = <<>> THEN Quot(NaN, 0) ELSE Quot(SumSeq(vs), Len(vs))

SeriesMedian(vs) ==
    LET s == SortedValues(vs)
        n == Len(vs)
    IN  IF n = 0 THEN Quot(NaN, 0)
        ELSE IF n % 2 = 1 THEN Quot(s[(n + 1) \div 2], 1)
        ELSE Quot(NumAdd(s[n \div 2], s[n \div 2 + 1]), 2)

SeriesMin(vs) == IF vs = <<>> THEN NaN ELSE SortedValues(vs)[1]

SeriesMax(vs) == IF vs = <<>> THEN NaN ELSE SortedValues(vs)[Len(vs)]

TsLess(a, b) ==
    \/ a.y < b.y
    \/ a.y = b.y /\ a.mo < b.mo
    \/ a.y = b.y /\ a.mo = b.mo /\ a.d < b.d
    \/ a.y = b.y /\ a.mo = b.mo /\ a.d = b.d /\ a.t < b.t

TsLeq(a, b) == a = b \/ TsLess(a, b)

\* sort_values with the default kind='quicksort', which is not stable: every
\* arrangement of the rows that is in order is a possible result
SortDescending(d, by) ==
    Arrangements(d, {p \in SeqToSet(d) \X SeqToSet(d) : NumLeq(p[2][by], p[1][by])})

SortAscending(d, by) ==
    Arrangements(d, {p \in SeqToSet(d) \X SeqToSet(d) : NumLeq(p[1][by], p[2][by])})

SortByTimestamp(d) ==
    Arrangements(d, {p \in SeqToSet(d) \X SeqToSet(d) :
                        TsLeq(p[1].timestamp, p[2].timestamp)})

\* df.columns once the derived columns are attached
Columns(d) == RawColumns \cup DerivedColumns

\* faulty variant: the label is taken for a position (iloc)
Loc_ByPosition(d, label) == IF label + 1 <= Len(d) THEN d[label + 1] ELSE d[1]

\* df.loc[label]
Loc(d, label) == d[CHOOSE i \in 1..Len(d) : d[i].label = label]

(***************************************************************************)
(* KPI cards (project_functions.py 108-164).  A card's outcome is its      *)
(* title with the entity and the value it shows, or the exception raised.  *)
(***************************************************************************)
\* an exception that reaches the caller of function fn working on column col
Raised(fn, col, exc) == [kind |-> "raise", title |-> fn, column |-> col, exc |-> exc]

card_info(d) ==
    {[kind |-> "count", title |-> "Crypto count",
      count |-> Cardinality({d[i].name : i \in 1..Len(d)} \ {NaName})]}

total_market_cap(d) ==
    {[kind |-> "total", title |-> "Total Market Cap",
      value |-> SumSeq(Values(d, "market_cap_num"))]}

\* Series.idxmax / idxmin: the label of the first row holding the extreme
\* of the non-missing values
Better(a, b, which) == IF which = "max" THEN NumLess(b, a) ELSE NumLess(a, b)

IdxExtreme(d, col, which) ==
    LET best == CHOOSE i \in 1..Len(d) :
                    /\ ~IsNa(d[i], col)
                    /\ \A j \in 1..Len(d) :
                           ~IsNa(d[j], col) =>
                               /\ ~Better(d[j][col], d[i][col], which)
                               /\ (j < i => d[j][col] # d[i][col])
    IN  d[best].label

\* df.loc[df[col].idxmax()]
ExtremeRow(d, col, which) == Loc(d, IdxExtreme(d, col, which))

\* On an empty column the reduction raises ValueError.  On a column that is
\* all missing it raises ValueError (pandas 3) or returns NaN, which df.loc
\* then rejects with KeyError (pandas 2).
ExtremeCard(d, title, col, which) ==
    IF d = <<>> THEN {Raised(title, col, "ValueError")}
    ELSE IF \A i \in 1..Len(d) : IsNa(d[i], col)
    THEN {Raised(title, col, "ValueError"), Raised(title, col, "KeyError")}
    ELSE LET row == ExtremeRow(d, col, which)
         IN  {[kind |-> "card", title |-> title, column |-> col,
               name |-> row.name, value |-> row[col]]}

max_market_cap(d) == ExtremeCard(d, "Top Market Cap", "market_cap_num", "max")

most_expensive_crypto(d) == ExtremeCard(d, "Most Expensive", "price_usd_num", "max")

top_gainer_24h(d) == ExtremeCard(d, "Top Gainer (24h)", "chg_24h_num", "max")

top_loser_24h(d) == ExtremeCard(d, "Top Loser (24h)", "chg_24h_num", "min")

top_gainer_7d(d) == ExtremeCard(d, "Top Gainer (7d)", "chg_7d_num", "max")

top_loser_7d(d) == ExtremeCard(d, "Top Loser (7d)", "chg_7d_num", "min")

(***************************************************************************)
(* get_crypto_list, get_top_crypto_list (177-207).                         *)
(***************************************************************************)
\* keep the first row of every name
drop_duplicates(s) ==
    AtPositions(s, {i \in 1..Len(s) : \A j \in 1..(i - 1) : s[j].name # s[i].name})

\* the first n rows, n positive
head(s, n) == SubSeq(s, 1, Min2(n, Len(s)))

get_crypto_list(d) ==
    {[kind |-> "names", names |-> Column(drop_duplicates(d), "name")]}

\* faulty variant: the sort is ascending
TopNames_Ascending(d, n, by) ==
    {Column(head(drop_duplicates(s), n), "name") :
        s \in SortAscending(dropna(d, by), by)}

\* lines 199-203
TopNames(d, n, by) ==
    {Column(head(drop_duplicates(s), n), "name") :
        s \in SortDescending(dropna(d, by), by)}

get_top_crypto_list(d, n, by, top1) ==
    IF by \notin Columns(d) THEN {Raised("get_top_crypto_list", by, "ValueError")}
    ELSE {[kind |-> "top", n |-> n, by |-> by, top1 |-> top1,
           names |-> IF top1 /\ names # <<>> THEN Tail(names) ELSE names] :
             names \in TopNames(d, n, by)}


(***************************************************************************)
(* get_crypto_main_info (228-275).  The dashboard calls it with the chosen *)
(* start and end date in the places of price_decimals and change_decimals  *)
(* (Cripto_main.py line 87).                                               *)
(***************************************************************************)
Date(y, mo, d) == [k |-> "date", y |-> y, mo |-> mo, d |-> d]

\* an integer argument, as the default price_decimals=1
IntArg(n) == [k |-> "int", y |-> n, mo |-> 0, d |-> 0]

DateOf(ts) == Date(ts.y, ts.mo, ts.d)

\* fmt_num / fmt_percent: a fixed number of decimals when the format
\* specification is valid, str(x) when format() rejects it
FormatKind(x, dec) ==
    IF IsNaN(x) THEN "-" ELSE IF dec.k = "int" THEN "fixed" ELSE "str"

get_crypto_main_info(d, crypto, price_decimals, change_decimals) ==
    LET crypto_df == SelectSeq(d, LAMBDA r : r.name = crypto)
        price == Values(crypto_df, "price_usd_num")
        chg24 == Values(crypto_df, "chg_24h_num")
        chg7 == Values(crypto_df, "chg_7d_num")
    IN  IF crypto_df = <<>>
        THEN [kind |-> "no_data", crypto |-> crypto,
              price_decimals |-> price_decimals, change_decimals |-> change_decimals]
        ELSE [kind |-> "info", crypto |-> crypto,
              price_decimals |-> price_decimals, change_decimals |-> change_decimals,
              name |-> crypto_df[1].name, symbol |-> crypto_df[1].symbol,
              rows |-> Column(crypto_df, "label"),
              price_mean |-> SeriesMean(price), price_median |-> SeriesMedian(price),
              price_min |-> SeriesMin(price), price_max |-> SeriesMax(price),
              chg24_mean |-> SeriesMean(chg24), chg24_min |-> SeriesMin(chg24),
              chg24_max |-> SeriesMax(chg24),
              chg7_mean |-> SeriesMean(chg7), chg7_min |-> SeriesMin(chg7),
              chg7_max |-> SeriesMax(chg7),
              price_format |-> FormatKind(SeriesMax(price), price_decimals),
              change_format |-> FormatKind(SeriesMax(chg24), change_decimals)]

(***************************************************************************)
(* plot_crypto_field (278-324): the series handed to the plot.             *)
(***************************************************************************)
\* datetime.max.time() is 23:59:59.999999: the last minute of the day
LastMinute == 1439

\* faulty variant: the range ends at the beginning of the end date
EndOfRange_Midnight(end_date) == Stamp(end_date.y, end_date.mo, end_date.d, 0)

\* line 287
EndOfRange(end_date) == Stamp(end_date.y, end_date.mo, end_date.d, LastMinute)

\* line 286
StartOfRange(start_date) == Stamp(start_date.y, start_date.mo, start_date.d, 0)

\* line 289; a comparison with NaT is false
InRange(d, start_date, end_date) ==
    SelectSeq(d, LAMBDA r :
        /\ ~IsNaT(r.timestamp)
        /\ TsLeq(StartOfRange(start_date), r.timestamp)
        /\ TsLeq(r.timestamp, EndOfRange(end_date)))

\* lines 295-300 for one crypto: the possible sorted series (their labels),
\* the empty series when there is no row
SeriesOf(d, crypto) ==
    {Column(s, "label") :
        s \in SortByTimestamp(SelectSeq(d, LAMBDA r : r.name = crypto))}

\* one series for each requested crypto, in every possible way
RECURSIVE SeriesFor(_, _)
SeriesFor(d, cryptos) ==
    IF cryptos = <<>> THEN {<<>>}
    ELSE {<<s>> \o rest : s \in SeriesOf(d, Head(cryptos)),
                          rest \in SeriesFor(d, Tail(cryptos))}

plot_crypto_field(d, start_date, end_date, cryptos) ==
    {[kind |-> "plot", start_date |-> start_date, end_date |-> end_date,
      cryptos |-> cryptos, series |-> series,
      warned |-> {i \in 1..Len(cryptos) : series[i] = <<>>},
      fig |-> \E i \in 1..Len(cryptos) : series[i] # <<>>] :
        series \in SeriesFor(InRange(d, start_date, end_date), cryptos)}

(***************************************************************************)
(* count_plot_top_n_by_name (326-359) on the name column: the values and   *)
(* their counts, the most frequent first.                                  *)
(***************************************************************************)
CountOf(d, name) == Cardinality({i \in 1..Len(d) : d[i].name = name})

\* df[col].value_counts(): NaN is left out, ties come in any order
value_counts(d) ==
    LET names == Column(drop_duplicates(dropna(d, "name")), "name")
        counts == [i \in 1..Len(names) |->
                     [value |-> names[i], count |-> CountOf(d, names[i])]]
    IN  Arrangements(counts,
            {p \in SeqToSet(counts) \X SeqToSet(counts) : p[1].count >= p[2].count})

count_plot_top_n_by_name(d, col, n) ==
    IF col \notin Columns(d) THEN {[kind |-> "error", col |-> col]}
    ELSE {[kind |-> "counts", n |-> n, top |-> head(vc, n)] : vc \in value_counts(d)}

(***************************************************************************)
(* Cripto_main.py lines 27-28: the bounds of the date picker.              *)
(***************************************************************************)
\* Series.max() / min() skip NaT and are NaT when nothing is left;
\* NaT.date() raises ValueError
date_bounds(d) ==
    LET ts == Column(dropna(d, "timestamp"), "timestamp")
        hi == CHOOSE x \in {ts[i] : i \in 1..Len(ts)} :
                  \A i \in 1..Len(ts) : TsLeq(ts[i], x)
        lo == CHOOSE x \in {ts[i] : i \in 1..Len(ts)} :
                  \A i \in 1..Len(ts) : TsLeq(x, ts[i])
    IN  IF ts = <<>> THEN {Raised("date", "timestamp", "ValueError")}
        ELSE {[kind |-> "dates", max_date |-> DateOf(hi), min_date |-> DateOf(lo)]}


(***************************************************************************)
(* The dashboard: parse, filter, then queries on the cleaned dataset, each *)
(* a call of one function with arguments a widget or a caller can give.    *)
(***************************************************************************)
\* Cripto_main.py lines 23-24
Filter == DropNaLine(na_list, "parsed", "returned")

\* a call made on the cleaned dataset and its outcome
Query(results) ==
    /\ pc = "ready"
    /\ out' \in results
    /\ pc' = "returned"
    /\ UNCHANGED <<df, sr, res>>

\* the outcome is shown and the dashboard waits for the next request
Continue ==
    /\ pc = "returned"
    /\ pc' = "ready"
    /\ out' = NoOut
    /\ UNCHANGED <<df, sr, res>>

\* n as a caller may give it, and the dashboard's choices 5 and 10 (line 59)
TopNs == {1, 2, 5}

\* faulty variant: the sorted copy is written back to the dataset (an in-place sort)
GetTopCryptoList_InPlace ==
    /\ pc = "ready"
    /\ \E n \in TopNs, by \in DerivedColumns :
           /\ out' \in get_top_crypto_list(df, n, by, FALSE)
           /\ df' \in SortDescending(df, by)
    /\ pc' = "returned"
    /\ UNCHANGED <<sr, res>>

\* the columns of column_library (line 55) and one that does not exist
ByColumns == {"market_cap_num", "price_usd_num", "vol_24h_num", "no_such_column"}

GetTopCryptoList ==
    \E n \in TopNs, by \in ByColumns, top1 \in BOOLEAN :
        Query(get_top_crypto_list(df, n, by, top1))

CardInfo == Query(card_info(df))

TotalMarketCap == Query(total_market_cap(df))

MaxMarketCap == Query(max_market_cap(df))

MostExpensiveCrypto == Query(most_expensive_crypto(df))

TopGainer24h == Query(top_gainer_24h(df))

TopLoser24h == Query(top_loser_24h(df))

TopGainer7d == Query(top_gainer_7d(df))

TopLoser7d == Query(top_loser_7d(df))

GetCryptoList == Query(get_crypto_list(df))

QueryDates == {Date(2024, 1, 1), Date(2024, 1, 2)}

\* line 87, and a call with the default decimals
GetCryptoMainInfo ==
    \E crypto \in Names :
        \/ \E start_date \in QueryDates, end_date \in QueryDates :
               Query({get_crypto_main_info(df, crypto, start_date, end_date)})
        \/ Query({get_crypto_main_info(df, crypto, IntArg(1), IntArg(1))})

CryptoLists ==
    {<<a>> : a \in Names} \cup {<<"Bitcoin", "Ethereum">>, <<"Tether", "Bitcoin">>}

\* lines 64 and 91
PlotCryptoField ==
    \E start_date \in QueryDates, end_date \in QueryDates, cryptos \in CryptoLists :
        Query(plot_crypto_field(df, start_date, end_date, cryptos))

\* line 98
CountPlotTopNByName ==
    \E col \in {"name", "no_such_column"}, n \in {1, 2, 20} :
        Query(count_plot_top_n_by_name(df, col, n))

DateBounds == Query(date_bounds(df))

Cards ==
    \/ CardInfo \/ TotalMarketCap \/ MaxMarketCap \/ MostExpensiveCrypto
    \/ TopGainer24h \/ TopLoser24h \/ TopGainer7d \/ TopLoser7d

Init ==
    /\ df \in Datasets(TimeRows) \cup Datasets(ValueRows)
    /\ pc = "loaded"
    /\ out = NoOut
    /\ sr = <<>>
    /\ res = [kind |-> "none", vals |-> <<>>]

Next ==
    \/ Parse \/ Filter \/ DateBounds \/ Cards \/ GetCryptoList
    \/ GetTopCryptoList \/ GetCryptoMainInfo \/ PlotCryptoField
    \/ CountPlotTopNByName \/ Continue

Spec == Init /\ [][Next]_vars

(***************************************************************************)
(* SpecFn: the ranking and the extreme cards called on any parsed dataset, *)
(* filtered or not.                                                        *)
(***************************************************************************)
InitFn ==
    /\ df \in {ParseColumns(raw).vals : raw \in Datasets(ValueRows)}
    /\ pc = "ready"
    /\ out = NoOut
    /\ sr = <<>>
    /\ res = [kind |-> "none", vals |-> <<>>]

NextFn ==
    \/ GetTopCryptoList \/ MaxMarketCap \/ MostExpensiveCrypto
    \/ TopGainer24h \/ TopLoser24h \/ TopGainer7d \/ TopLoser7d

SpecFn == InitFn /\ [][NextFn]_vars


(***************************************************************************)
(* Properties of the row filter (checked under SpecFilter).               *)
(***************************************************************************)
NonMissingIn(r, columns) == \A i \in 1..Len(columns) : ~IsNa(r, columns[i])

\* C6: drop_na_line keeps exactly the rows that are non-missing in every
\* listed column, in their original order; after the dashboard's list every
\* row has a name and the six numeric values; filtering the result again on
\* the same list returns the same rows.
C6_FilterIsConjunction ==
    pc \in {"filtered", "refiltered"} =>
        /\ df = SelectSeq(out.input, LAMBDA r : NonMissingIn(r, out.columns))
        /\ \A i, j \in 1..Len(df) : i < j => df[i].label < df[j].label
        /\ out.columns = na_list =>
               \A i \in 1..Len(df) :
                   /\ df[i].name \in Names
                   /\ df[i].price_usd_num.k = "num" /\ df[i].vol_24h_num.k = "num"
                   /\ df[i].market_cap_num.k = "num" /\ df[i].total_vol_num.k = "num"
                   /\ df[i].chg_24h_num.k = "num" /\ df[i].chg_7d_num.k = "num"
        /\ pc = "refiltered" => df = out.input

C6_Witness ==
    /\ pc = "refiltered"
    /\ out.columns = na_list
    /\ Len(df) = 2
    /\ df[1].label = 1

(***************************************************************************)
(* Properties of the aggregations.                                        *)
(***************************************************************************)
DateLeq(a, b) ==
    \/ a.y < b.y
    \/ a.y = b.y /\ a.mo < b.mo
    \/ a.y = b.y /\ a.mo = b.mo /\ a.d <= b.d

\* the labels of the rows of entity crypto dated from start to end inclusive
LabelsInRange(d, crypto, start, end) ==
    {d[i].label : i \in {j \in 1..Len(d) :
        /\ d[j].name = crypto
        /\ ~IsNaT(d[j].timestamp)
        /\ DateLeq(start, DateOf(d[j].timestamp))
        /\ DateLeq(DateOf(d[j].timestamp), end)}}

\* C4: called by the dashboard with a date range, get_crypto_main_info
\* computes its statistics over exactly the entity's rows dated within the
\* range, and reports "no data" when there is no such row.
C4_SummaryWithinRange ==
    (pc = "returned" /\ out.kind \in {"info", "no_data"}) =>
        (out.price_decimals.k = "date" =>
            LET want == LabelsInRange(df, out.crypto, out.price_decimals,
                                      out.change_decimals)
            IN  IF want = {} THEN out.kind = "no_data"
                ELSE out.kind = "info" /\ SeqToSet(out.rows) = want)

\* the best (maximum) non-missing value of column col among the rows of name
BestOf(d, name, col) ==
    LET vs == {d[i][col] : i \in {j \in 1..Len(d) : d[j].name = name /\ ~IsNa(d[j], col)}}
    IN  CHOOSE v \in vs : \A w \in vs : NumLeq(w, v)

Qualifying(d, col) == {d[i].name : i \in {j \in 1..Len(d) : ~IsNa(d[j], col)}}

\* C5: with the exclude-top flag unset, get_top_crypto_list returns at most
\* n names, none twice, each an entity with a value, in descending order of
\* the entities' best values, and fewer than n names only when fewer than n
\* entities have a value.
C5_TopListShape ==
    (pc = "returned" /\ out.kind = "top") =>
        (~out.top1 =>
            /\ Len(out.names) <= out.n
            /\ \A i, j \in 1..Len(out.names) : i # j => out.names[i] # out.names[j]
            /\ SeqToSet(out.names) \subseteq Qualifying(df, out.by)
            /\ \A i, j \in 1..Len(out.names) :
                   i < j => NumLeq(BestOf(df, out.names[j], out.by),
                                   BestOf(df, out.names[i], out.by))
            /\ Len(out.names) < out.n => Cardinality(Qualifying(df, out.by)) < out.n)

C5_Witness ==
    /\ pc = "returned" /\ out.kind = "top"
    /\ ~out.top1 /\ out.n = 2 /\ out.by = "price_usd_num"
    /\ Len(df) = 3
    /\ df[1].name = "Bitcoin" /\ IsNaN(df[1].price_usd_num)
    /\ df[2].name = "Ethereum" /\ df[3].name = "Ethereum"
    /\ NumLess(df[2].price_usd_num, df[3].price_usd_num)
    /\ out.names = <<"Ethereum">>

ExtremeTitles ==
    {"Top Market Cap", "Most Expensive", "Top Gainer (24h)", "Top Loser (24h)",
     "Top Gainer (7d)", "Top Loser (7d)"}

\* the column each card is about
CardColumn(title) ==
    CASE title = "Top Market Cap" -> "market_cap_num"
      [] title = "Most Expensive" -> "price_usd_num"
      [] title \in {"Top Gainer (24h)", "Top Loser (24h)"} -> "chg_24h_num"
      [] title \in {"Top Gainer (7d)", "Top Loser (7d)"} -> "chg_7d_num"

\* C7: a global-extreme query on a dataset with no qualifying row (empty, or
\* the metric column all missing) ends in a "no data" outcome, not in the
\* reduction's exception.
C7_EmptyIsNoData ==
    (pc = "returned" /\ out.kind \in {"card", "raise", "no_data"}) =>
        ((out.title \in ExtremeTitles
            /\ \A i \in 1..Len(df) : IsNa(df[i], CardColumn(out.title)))
         => out.kind = "no_data")

\* C8: once the pipeline has run, no query changes the dataset.
C8_QueriesLeaveDatasetUnchanged ==
    [][(pc \in {"ready", "returned"}) => (df' = df)]_vars

C8_Witness ==
    /\ pc = "returned" /\ out.kind = "top" /\ out.by = "market_cap_num"
    /\ Len(df) = 2
    /\ NumLess(df[1].market_cap_num, df[2].market_cap_num)
    /\ out.names = <<df[2].name, df[1].name>>

MaxTitles == {"Top Market Cap", "Most Expensive", "Top Gainer (24h)", "Top Gainer (7d)"}

\* C9: when one row alone holds the maximum of a card's column, the card
\* reports that row's entity and value, whatever the row labels are.
C9_UniqueMaximum ==
    (pc = "returned" /\ out.kind \in {"card", "raise"}) =>
        (out.title \in MaxTitles =>
            \A i \in 1..Len(df) :
                (\A j \in 1..Len(df) :
                     j # i => NumLess(df[j][CardColumn(out.title)],
                                      df[i][CardColumn(out.title)]))
                => /\ out.kind = "card"
                   /\ out.name = df[i].name
                   /\ out.value = df[i][CardColumn(out.title)])

C9_Witness ==
    /\ pc = "returned" /\ out.kind = "card" /\ out.title = "Top Market Cap"
    /\ Len(df) = 2 /\ df[1].label = 1 /\ df[2].label = 2
    /\ NumLess(df[1].market_cap_num, df[2].market_cap_num)
    /\ df[1].name = "Bitcoin" /\ out.name = "Ethereum"

\* C10: plot_crypto_field selects for each requested entity exactly its rows
\* dated from the start date to the end date inclusive, in non-decreasing
\* time order; an entity without such a row gets an empty series and a
\* warning, and the other entities still get theirs.
C10_SeriesInRange ==
    (pc = "returned" /\ out.kind = "plot") =>
        \A i \in 1..Len(out.cryptos) :
            LET want == LabelsInRange(df, out.cryptos[i], out.start_date, out.end_date)
                got == out.series[i]
            IN  /\ SeqToSet(got) = want
                /\ Len(got) = Cardinality(want)
                /\ \A a, b \in 1..Len(got) :
                       a < b => TsLeq(Loc(df, got[a]).timestamp, Loc(df, got[b]).timestamp)
                /\ (i \in out.warned) <=> (want = {})

C10_Witness ==
    /\ pc = "returned" /\ out.kind = "plot"
    /\ out.cryptos = <<"Tether", "Bitcoin">>
    /\ out.start_date = Date(2024, 1, 1) /\ out.end_date = Date(2024, 1, 1)
    /\ out.warned = {1}
    /\ Len(df) = 3
    /\ df[1].name = "Bitcoin" /\ df[1].timestamp = Stamp(2024, 1, 2, 0)
    /\ df[2].name = "Bitcoin" /\ df[2].timestamp = Stamp(2024, 1, 1, 1439)
    /\ df[3].name = "Bitcoin" /\ df[3].timestamp = Stamp(2024, 1, 1, 0)
    /\ out.series[2] = <<2, 1>>

====
